---- MODULE Spec2Model ----
(***************************************************************************)
(* SupabaseService (server/services/supabase_service.py): a facade over    *)
(* the Supabase client.  Every public method obtains the client through    *)
(* get_client, issues its request(s) inside try/except Exception, maps the  *)
(* response to a return value and maps any raised exception to a logged   *)
(* error plus a fixed failure value.                                       *)
(*                                                                         *)
(* The facade's code is modelled statement by statement.  The backing      *)
(* service is not part of the repository: it is modelled as the            *)
(* environment of each call site - a table of rows with unique ids and     *)
(* strictly increasing created_at, which answers every request either with *)
(* its result or with a raised exception.  A write that raises may or may  *)
(* not have been applied (the response can be lost after the commit).  A   *)
(* range request whose bounds are not a valid range is answered either     *)
(* with an exception or with the rows whose positions lie in the range     *)
(* (none), since the code itself never validates page or page_size.        *)
(*                                                                         *)
(* Concurrent invocations are the processes of Procs.  A method that makes *)
(* one request is one step; get_contacts makes two requests and is two     *)
(* steps, so that other invocations can run between them.                  *)
(***************************************************************************)
EXTENDS Integers, Sequences, FiniteSets, TLC

\* ------------------------------------------------------------------ bounds
MaxClock == 3
MaxPage == 2
MaxPageSize == 2

Procs == {"p1", "p2"}
Callers == {"p1"}
\* contact ids are opaque strings
Ids == {"c1", "c2"}
Names == {"ann", "bob"}
Pages == 0..MaxPage
PageSizes == (-1)..MaxPageSize
Emails == {"a@x"}
Passwords == {"pw"}

\* contact_data / update_data: the fields the caller supplies
Inputs == [name : Names]
\* user_metadata argument: omitted (None), an empty dict, or a non-empty dict
MetaArgs ==
  { [given |-> FALSE, map |-> {}],
    [given |-> TRUE, map |-> {}],
    [given |-> TRUE, map |-> {<<"role", "admin">>}] }

\* ------------------------------------------------------------ log messages
\* Python strings are modelled as sequences of characters.
\* "Supabase client not initialized"
WarnText ==
  <<"S","u","p","a","b","a","s","e"," ","c","l","i","e","n","t"," ","n","o","t"," ","i","n","i","t","i","a","l","i","z","e","d">>
\* "Error inserting contact into Supabase: "
CtxInsert ==
  <<"E","r","r","o","r"," ","i","n","s","e","r","t","i","n","g"," ","c","o","n","t","a","c","t"," ","i","n","t","o"," ","S","u","p","a","b","a","s","e",":"," ">>
\* "Error getting contacts from Supabase: "
CtxList ==
  <<"E","r","r","o","r"," ","g","e","t","t","i","n","g"," ","c","o","n","t","a","c","t","s"," ","f","r","o","m"," ","S","u","p","a","b","a","s","e",":"," ">>
\* "Error getting contact from Supabase: "
CtxGet ==
  <<"E","r","r","o","r"," ","g","e","t","t","i","n","g"," ","c","o","n","t","a","c","t"," ","f","r","o","m"," ","S","u","p","a","b","a","s","e",":"," ">>
\* "Error updating contact in Supabase: "
CtxUpdate ==
  <<"E","r","r","o","r"," ","u","p","d","a","t","i","n","g"," ","c","o","n","t","a","c","t"," ","i","n"," ","S","u","p","a","b","a","s","e",":"," ">>
\* "Error deleting contact from Supabase: "
CtxDelete ==
  <<"E","r","r","o","r"," ","d","e","l","e","t","i","n","g"," ","c","o","n","t","a","c","t"," ","f","r","o","m"," ","S","u","p","a","b","a","s","e",":"," ">>
\* "Error creating user in Supabase: "
CtxCreate ==
  <<"E","r","r","o","r"," ","c","r","e","a","t","i","n","g"," ","u","s","e","r"," ","i","n"," ","S","u","p","a","b","a","s","e",":"," ">>
\* "Error signing in user in Supabase: "
CtxSignIn ==
  <<"E","r","r","o","r"," ","s","i","g","n","i","n","g"," ","i","n"," ","u","s","e","r"," ","i","n"," ","S","u","p","a","b","a","s","e",":"," ">>

\* The exceptions a call can raise: one raised by the client library, and the
\* ZeroDivisionError of the pages computation.
\* "request failed"
TxtApi ==
  <<"r","e","q","u","e","s","t"," ","f","a","i","l","e","d">>
\* "integer division or modulo by zero"
TxtZero ==
  <<"i","n","t","e","g","e","r"," ","d","i","v","i","s","i","o","n"," ","o","r"," ","m","o","d","u","l","o"," ","b","y"," ","z","e","r","o">>

ServiceFaults == {"APIError"}

\* str(e)
StrOf(e) == IF e = "ZeroDivisionError" THEN TxtZero ELSE TxtApi

\* The methods, by their names in the source.
OpNames ==
  { "insert_contact", "get_contacts", "get_contact_by_id", "update_contact",
    "delete_contact", "create_user", "sign_in_user" }

\* The fixed part of the f-string each except block logs.
ErrContext(op) ==
  CASE op = "insert_contact" -> CtxInsert
    [] op = "get_contacts" -> CtxList
    [] op = "get_contact_by_id" -> CtxGet
    [] op = "update_contact" -> CtxUpdate
    [] op = "delete_contact" -> CtxDelete
    [] op = "create_user" -> CtxCreate
    [] op = "sign_in_user" -> CtxSignIn

\* current_app.logger.error(f"Error ... Supabase: {str(e)}")
ErrorEntry(op, e) == [level |-> "error", msg |-> ErrContext(op) \o StrOf(e)]

\* current_app.logger.warning("Supabase client not initialized")
WarningEntry == [level |-> "warning", msg |-> WarnText]

\* ------------------------------------------------------------ return values
\* Python's values are tagged with their kind, None being a kind of its own.
None == [kind |-> "none"]
Bool(b) == [kind |-> "bool", val |-> b]
Rows(s) == [kind |-> "rows", val |-> s]
Rec(r) == [kind |-> "record", val |-> r]

\* the value each method returns when the client is missing
AbsentReturn(op) == IF op = "delete_contact" THEN Bool(FALSE) ELSE None

\* faulty variant: the except block of delete_contact returns None like the others
ErrorReturn_none(op) == None

\* faulty variant: the except blocks return an empty list
ErrorReturn_empty(op) == Rows(<<>>)

\* the value each except block returns
ErrorReturn(op) == IF op = "delete_contact" THEN Bool(FALSE) ELSE None

\* ---------------------------------------------------------------- facade
\* start = (page - 1) * page_size
RangeStart(page, page_size) == (page - 1) * page_size

\* faulty variant: the end of the range is one past the page
RangeEnd_wide(page, page_size) == RangeStart(page, page_size) + page_size

\* end = start + page_size - 1
RangeEnd(page, page_size) == RangeStart(page, page_size) + page_size - 1

\* total = count_response.count or 0
TotalOf(count) == IF count.has /\ count.n # 0 THEN count.n ELSE 0

\* faulty variant: the page count rounds down
PagesOf_floor(total, page_size) == total \div page_size

\* (total + page_size - 1) // page_size, for page_size # 0 (floor division)
PagesOf(total, page_size) == (total + page_size - 1) \div page_size

\* faulty variant: total is taken from the rows of the page instead of the count
PageOf_fromslice(items, page, page_size, count) ==
  [ kind |-> "page",
    items |-> items,
    page |-> page,
    page_size |-> page_size,
    total |-> Len(items),
    pages |-> PagesOf(Len(items), page_size) ]

\* the dict get_contacts returns
PageOf(items, page, page_size, count) ==
  [ kind |-> "page",
    items |-> items,
    page |-> page,
    page_size |-> page_size,
    total |-> TotalOf(count),
    pages |-> PagesOf(TotalOf(count), page_size) ]

\* insert_contact: return response.data
InsertReturn(data) == Rows(data)

\* faulty variant: the length test is off by one
GetReturn_offbyone(data) == IF data # <<>> /\ Len(data) > 1 THEN Rec(data[1]) ELSE None

\* get_contact_by_id: response.data[0] if response.data and len(...) > 0
GetReturn(data) == IF data # <<>> /\ Len(data) > 0 THEN Rec(data[1]) ELSE None

\* faulty variant: update_contact returns response.data as insert_contact does
UpdateReturn_list(data) == Rows(data)

\* update_contact: response.data[0] if response.data and len(...) > 0
UpdateReturn(data) == IF data # <<>> /\ Len(data) > 0 THEN Rec(data[1]) ELSE None

\* faulty variant: delete_contact reports success whenever execute() did not raise
DeleteReturn_always(data) == Bool(TRUE)

\* delete_contact: return bool(response.data)
DeleteReturn(data) == Bool(data # <<>>)

\* create_user: "data": user_metadata or {}
MetaOrEmpty(user_metadata) ==
  IF user_metadata.given /\ user_metadata.map # {} THEN user_metadata.map ELSE {}

\* create_user: return auth_response.user
CreateReturn(auth_response) == [kind |-> "user", val |-> auth_response.user]

\* sign_in_user: return {"user": ..., "session": ...}
SignInReturn(auth_response) ==
  [kind |-> "session", user |-> auth_response.user, session |-> auth_response.session]

\* --------------------------------------------------------- backing service
\* The rows of 'contacts', newest created_at first: .order('created_at', desc=True)
RECURSIVE NewestFirst(_)
NewestFirst(tbl) ==
  IF tbl = {}
  THEN <<>>
  ELSE LET newest == CHOOSE r \in tbl : \A q \in tbl : q.created_at <= r.created_at
       IN  <<newest>> \o NewestFirst(tbl \ {newest})

\* .range(start, end): the rows at the zero-indexed positions start..end
RangeOf(s, start, end) ==
  LET lo == IF start < 0 THEN 0 ELSE start
      hi == IF end > Len(s) - 1 THEN Len(s) - 1 ELSE end
  IN  IF lo > hi THEN <<>> ELSE SubSeq(s, lo + 1, hi + 1)

\* .eq('id', contact_id)
RowsWithId(tbl, contact_id) == {r \in tbl : r.id = contact_id}

\* a set of at most one row, as the sequence the service returns
AsData(rows) == IF rows = {} THEN <<>> ELSE << CHOOSE r \in rows : TRUE >>

\* the row .update(update_data) turns r into
Patched(r, update_data) == [r EXCEPT !.name = update_data.name]

\* ------------------------------------------------------------------ state
VARIABLES
  client,   \* extensions.supabase_client: TRUE when initialised, FALSE when falsy
  table,    \* the rows of 'contacts' held by the backing service
  clock,    \* the service's clock: created_at of the newest row ever inserted
  pc,       \* per invocation slot: "idle", or "count" between the two requests
  frame,    \* the locals of a get_contacts call between its two requests
  last,     \* the call the latest step completed (NoCall if it completed none):
            \* arguments, return value, what it logged, the requests it issued,
            \* the responses, and the exception its except block caught
  track     \* history: per id, what the calls' return values say about the row

vars == <<client, table, clock, pc, frame, last, track>>

IdleFrame ==
  [page |-> 0, page_size |-> 0, items |-> <<>>, log |-> <<>>, reqs |-> <<>>, resp |-> <<>>]

Unknown == [st |-> "unknown", name |-> ""]

\* the row the service may hold when the process starts
SeedRow == [id |-> "c1", created_at |-> 1, name |-> "ann"]

Call(p, op, args, ret, log, reqs, resp, exc) ==
  [ proc |-> p, op |-> op, args |-> args, ret |-> ret, log |-> log,
    reqs |-> reqs, resp |-> resp, exc |-> exc ]

\* responses of the service
Raised(e) == [kind |-> "raised", exc |-> e]
Data(d) == [kind |-> "data", data |-> d]

\* no call completed: the latest step only started a get_contacts call
NoCall == Call("", "none", [none |-> TRUE], None, <<>>, <<>>, <<>>, "none")

Init ==
  /\ client \in BOOLEAN
  /\ \E seeded \in BOOLEAN :
       /\ table = IF seeded THEN {SeedRow} ELSE {}
       /\ clock = IF seeded THEN SeedRow.created_at ELSE 0
  /\ pc = [p \in Procs |-> "idle"]
  /\ frame = [p \in Procs |-> IdleFrame]
  /\ last = NoCall
  /\ track = [i \in Ids |-> Unknown]

\* faulty variant: get_client returns the missing handle without logging
get_client_silent == [handle |-> client, log |-> <<>>]

\* get_client(): the handle, and the warning logged when it is missing
get_client ==
  [ handle |-> client,
    log |-> IF ~client THEN <<WarningEntry>> ELSE <<>> ]

\* History of what the caller has been told about each id: "inserted" with the
\* input once insert_contact returned a row with that id, "deleted" once
\* delete_contact then returned True for it, "unknown" after any other request
\* that changed the row (touched).
TrackAfter(op, args, ret, touched) ==
  LET base == [i \in Ids |-> IF i \in touched THEN Unknown ELSE track[i]]
  IN  IF op = "insert_contact" /\ ret.kind = "rows" /\ ret.val # <<>>
      THEN [base EXCEPT ![ret.val[1].id] =
              [st |-> "inserted", name |-> args.contact_data.name]]
      ELSE IF op = "delete_contact" /\ ret = Bool(TRUE)
              /\ track[args.contact_id].st = "inserted"
      THEN [base EXCEPT ![args.contact_id] = [st |-> "deleted", name |-> ""]]
      ELSE base

\* ---------------------------------------------------------------- actions
insert_contact(p, contact_data) ==
  /\ pc[p] = "idle"
  /\   LET gc == get_client
           args == [contact_data |-> contact_data]
           req == [kind |-> "insert", table |-> "contacts", json |-> contact_data]
       IN  IF ~gc.handle
           THEN /\ last' = Call(p, "insert_contact", args,
                                AbsentReturn("insert_contact"), gc.log, <<>>, <<>>, "none")
                /\ UNCHANGED <<table, clock, track>>
           ELSE \/ \E i \in {j \in Ids : RowsWithId(table, j) = {}} \cup {""}, e \in ServiceFaults :
                     \* execute() raises; the row was stored (i free) or not
                     LET applied == i \in Ids /\ RowsWithId(table, i) = {} /\ clock < MaxClock
                         row == [id |-> i, created_at |-> clock + 1, name |-> contact_data.name]
                         ret == ErrorReturn("insert_contact")
                     IN  /\ table' = IF applied THEN table \cup {row} ELSE table
                         /\ clock' = IF applied THEN clock + 1 ELSE clock
                         /\ last' = Call(p, "insert_contact", args, ret,
                                         gc.log \o <<ErrorEntry("insert_contact", e)>>,
                                         <<req>>, <<Raised(e)>>, e)
                         /\ track' = TrackAfter("insert_contact", args, ret,
                                                IF applied THEN {i} ELSE {})
                \/ \E i \in Ids, echo \in BOOLEAN :
                     \* the service stores the row under a free id and answers
                     \* with the row, or with no rows
                     LET row == [id |-> i, created_at |-> clock + 1, name |-> contact_data.name]
                         data == IF echo THEN <<row>> ELSE <<>>
                         ret == InsertReturn(data)
                     IN  /\ RowsWithId(table, i) = {}
                         /\ clock < MaxClock
                         /\ table' = table \cup {row}
                         /\ clock' = clock + 1
                         /\ last' = Call(p, "insert_contact", args, ret, gc.log,
                                         <<req>>, <<Data(data)>>, "none")
                         /\ track' = TrackAfter("insert_contact", args, ret, {i})
  /\ UNCHANGED <<client, pc, frame>>

get_contact_by_id(p, contact_id) ==
  /\ pc[p] = "idle"
  /\   LET gc == get_client
           args == [contact_id |-> contact_id]
           req == [kind |-> "select", table |-> "contacts", eq_id |-> contact_id, limit |-> 1]
       IN  IF ~gc.handle
           THEN last' = Call(p, "get_contact_by_id", args,
                             AbsentReturn("get_contact_by_id"), gc.log, <<>>, <<>>, "none")
           ELSE \/ \E e \in ServiceFaults :
                     last' = Call(p, "get_contact_by_id", args,
                                  ErrorReturn("get_contact_by_id"),
                                  gc.log \o <<ErrorEntry("get_contact_by_id", e)>>,
                                  <<req>>, <<Raised(e)>>, e)
                \/ LET data == AsData(RowsWithId(table, contact_id))
                   IN  last' = Call(p, "get_contact_by_id", args, GetReturn(data),
                                    gc.log, <<req>>, <<Data(data)>>, "none")
  /\ UNCHANGED <<client, table, clock, pc, frame, track>>

update_contact(p, contact_id, update_data) ==
  /\ pc[p] = "idle"
  /\   LET gc == get_client
           args == [contact_id |-> contact_id, update_data |-> update_data]
           req == [kind |-> "update", table |-> "contacts", eq_id |-> contact_id,
                   json |-> update_data]
           matched == RowsWithId(table, contact_id)
           changed == {Patched(r, update_data) : r \in matched}
           touched == {r.id : r \in matched}
       IN  IF ~gc.handle
           THEN /\ last' = Call(p, "update_contact", args,
                                AbsentReturn("update_contact"), gc.log, <<>>, <<>>, "none")
                /\ UNCHANGED <<table, track>>
           ELSE \/ \E e \in ServiceFaults, applied \in BOOLEAN :
                     LET ret == ErrorReturn("update_contact")
                     IN  /\ table' = IF applied THEN (table \ matched) \cup changed ELSE table
                         /\ last' = Call(p, "update_contact", args, ret,
                                         gc.log \o <<ErrorEntry("update_contact", e)>>,
                                         <<req>>, <<Raised(e)>>, e)
                         /\ track' = TrackAfter("update_contact", args, ret,
                                                IF applied THEN touched ELSE {})
                \/ LET data == AsData(changed)
                       ret == UpdateReturn(data)
                   IN  /\ table' = (table \ matched) \cup changed
                       /\ last' = Call(p, "update_contact", args, ret, gc.log,
                                       <<req>>, <<Data(data)>>, "none")
                       /\ track' = TrackAfter("update_contact", args, ret, touched)
  /\ UNCHANGED <<client, clock, pc, frame>>

delete_contact(p, contact_id) ==
  /\ pc[p] = "idle"
  /\   LET gc == get_client
           args == [contact_id |-> contact_id]
           req == [kind |-> "delete", table |-> "contacts", eq_id |-> contact_id]
           matched == RowsWithId(table, contact_id)
           touched == {r.id : r \in matched}
       IN  IF ~gc.handle
           THEN /\ last' = Call(p, "delete_contact", args,
                                AbsentReturn("delete_contact"), gc.log, <<>>, <<>>, "none")
                /\ UNCHANGED <<table, track>>
           ELSE \/ \E e \in ServiceFaults, applied \in BOOLEAN :
                     LET ret == ErrorReturn("delete_contact")
                     IN  /\ table' = IF applied THEN table \ matched ELSE table
                         /\ last' = Call(p, "delete_contact", args, ret,
                                         gc.log \o <<ErrorEntry("delete_contact", e)>>,
                                         <<req>>, <<Raised(e)>>, e)
                         /\ track' = TrackAfter("delete_contact", args, ret,
                                                IF applied THEN touched ELSE {})
                \/ LET data == AsData(matched)
                       ret == DeleteReturn(data)
                   IN  /\ table' = table \ matched
                       /\ last' = Call(p, "delete_contact", args, ret, gc.log,
                                       <<req>>, <<Data(data)>>, "none")
                       /\ track' = TrackAfter("delete_contact", args, ret, touched)
  /\ UNCHANGED <<client, clock, pc, frame>>

\* get_contacts up to the end of its first request (lines 57-70): the range is
\* computed and the page of rows requested.
get_contacts_slice(p, page, page_size) ==
  /\ pc[p] = "idle"
  /\   LET gc == get_client
           args == [page |-> page, page_size |-> page_size]
           start == RangeStart(page, page_size)
           end == RangeEnd(page, page_size)
           req == [kind |-> "range", table |-> "contacts", order |-> "created_at",
                   desc |-> TRUE, start |-> start, end |-> end]
       IN  IF ~gc.handle
           THEN /\ last' = Call(p, "get_contacts", args,
                                AbsentReturn("get_contacts"), gc.log, <<>>, <<>>, "none")
                /\ UNCHANGED <<pc, frame>>
           ELSE \/ \E e \in ServiceFaults :
                     /\ last' = Call(p, "get_contacts", args, ErrorReturn("get_contacts"),
                                     gc.log \o <<ErrorEntry("get_contacts", e)>>,
                                     <<req>>, <<Raised(e)>>, e)
                     /\ UNCHANGED <<pc, frame>>
                \/ LET items == RangeOf(NewestFirst(table), start, end)
                   IN  /\ pc' = [pc EXCEPT ![p] = "count"]
                       /\ frame' = [frame EXCEPT ![p] =
                            [ page |-> page, page_size |-> page_size, items |-> items,
                              log |-> gc.log, reqs |-> <<req>>,
                              resp |-> <<[kind |-> "data", data |-> items,
                                          size |-> Cardinality(table)]>> ]]
                       /\ last' = NoCall
  /\ UNCHANGED <<client, table, clock, track>>

\* get_contacts from its second request to its return (lines 72-85): the exact
\* count is requested and the page dict built; page_size = 0 makes the floor
\* division raise ZeroDivisionError inside the try block.
get_contacts_count(p) ==
  /\ pc[p] = "count"
  /\ LET f == frame[p]
         args == [page |-> f.page, page_size |-> f.page_size]
         req == [kind |-> "count", table |-> "contacts", count |-> "exact"]
     IN  \/ \E e \in ServiceFaults :
               last' = Call(p, "get_contacts", args, ErrorReturn("get_contacts"),
                            f.log \o <<ErrorEntry("get_contacts", e)>>,
                            f.reqs \o <<req>>, f.resp \o <<Raised(e)>>, e)
         \/ \E reported \in BOOLEAN :
               LET count == IF reported THEN [has |-> TRUE, n |-> Cardinality(table)]
                                        ELSE [has |-> FALSE, n |-> 0]
                   resp == f.resp \o <<[kind |-> "count", count |-> count,
                                        size |-> Cardinality(table),
                                        peers |-> {q \in Procs : q # p /\ pc[q] = "count"}]>>
               IN  IF f.page_size = 0
                   THEN last' = Call(p, "get_contacts", args, ErrorReturn("get_contacts"),
                                     f.log \o <<ErrorEntry("get_contacts", "ZeroDivisionError")>>,
                                     f.reqs \o <<req>>, resp, "ZeroDivisionError")
                   ELSE last' = Call(p, "get_contacts", args,
                                     PageOf(f.items, f.page, f.page_size, count),
                                     f.log, f.reqs \o <<req>>, resp, "none")
  /\ pc' = [pc EXCEPT ![p] = "idle"]
  /\ frame' = [frame EXCEPT ![p] = IdleFrame]
  /\ UNCHANGED <<client, table, clock, track>>

\* The authentication subsystem keeps its own state; from here it answers a
\* sign-up or a sign-in with a response or with an exception (a rejected
\* password, a duplicate email, invalid credentials, a transport error).
create_user(p, email, password, user_metadata) ==
  /\ pc[p] = "idle"
  /\   LET gc == get_client
           args == [email |-> email, password |-> password, user_metadata |-> user_metadata]
           req == [kind |-> "sign_up", email |-> email, password |-> password,
                   options |-> [data |-> MetaOrEmpty(user_metadata)]]
       IN  IF ~gc.handle
           THEN last' = Call(p, "create_user", args, AbsentReturn("create_user"),
                             gc.log, <<>>, <<>>, "none")
           ELSE \/ \E e \in ServiceFaults :
                     last' = Call(p, "create_user", args, ErrorReturn("create_user"),
                                  gc.log \o <<ErrorEntry("create_user", e)>>,
                                  <<req>>, <<Raised(e)>>, e)
                \/ LET auth_response ==
                         [ user |-> [email |-> email, user_metadata |-> req.options.data],
                           session |-> [access_token |-> "token"] ]
                   IN  last' = Call(p, "create_user", args, CreateReturn(auth_response),
                                    gc.log, <<req>>,
                                    <<[kind |-> "auth", auth |-> auth_response]>>, "none")
  /\ UNCHANGED <<client, table, clock, pc, frame, track>>

\* faulty variant: sign_in_user tries the request a second time when it raises
sign_in_user_retry(p, email, password) ==
  /\ pc[p] = "idle"
  /\   LET gc == get_client
           args == [email |-> email, password |-> password]
           req == [kind |-> "sign_in_with_password", email |-> email, password |-> password]
       IN  IF ~gc.handle
           THEN last' = Call(p, "sign_in_user", args, AbsentReturn("sign_in_user"),
                             gc.log, <<>>, <<>>, "none")
           ELSE \/ \E e \in ServiceFaults :
                     last' = Call(p, "sign_in_user", args, ErrorReturn("sign_in_user"),
                                  gc.log \o <<ErrorEntry("sign_in_user", e)>>,
                                  <<req, req>>, <<Raised(e), Raised(e)>>, e)
                \/ LET auth_response ==
                         [ user |-> [email |-> email, user_metadata |-> {}],
                           session |-> [access_token |-> "token"] ]
                   IN  last' = Call(p, "sign_in_user", args, SignInReturn(auth_response),
                                    gc.log, <<req>>,
                                    <<[kind |-> "auth", auth |-> auth_response]>>, "none")
  /\ UNCHANGED <<client, table, clock, pc, frame, track>>

sign_in_user(p, email, password) ==
  /\ pc[p] = "idle"
  /\   LET gc == get_client
           args == [email |-> email, password |-> password]
           req == [kind |-> "sign_in_with_password", email |-> email, password |-> password]
       IN  IF ~gc.handle
           THEN last' = Call(p, "sign_in_user", args, AbsentReturn("sign_in_user"),
                             gc.log, <<>>, <<>>, "none")
           ELSE \/ \E e \in ServiceFaults :
                     last' = Call(p, "sign_in_user", args, ErrorReturn("sign_in_user"),
                                  gc.log \o <<ErrorEntry("sign_in_user", e)>>,
                                  <<req>>, <<Raised(e)>>, e)
                \/ LET auth_response ==
                         [ user |-> [email |-> email, user_metadata |-> {}],
                           session |-> [access_token |-> "token"] ]
                   IN  last' = Call(p, "sign_in_user", args, SignInReturn(auth_response),
                                    gc.log, <<req>>,
                                    <<[kind |-> "auth", auth |-> auth_response]>>, "none")
  /\ UNCHANGED <<client, table, clock, pc, frame, track>>

\* One caller at a time: every method, called in any order with any arguments.
Next ==
  \E p \in Callers :
    \/ \E contact_data \in Inputs : insert_contact(p, contact_data)
    \/ \E page \in Pages, page_size \in PageSizes : get_contacts_slice(p, page, page_size)
    \/ get_contacts_count(p)
    \/ \E contact_id \in Ids : get_contact_by_id(p, contact_id)
    \/ \E contact_id \in Ids, update_data \in Inputs :
         update_contact(p, contact_id, update_data)
    \/ \E contact_id \in Ids : delete_contact(p, contact_id)
    \/ \E email \in Emails, password \in Passwords, user_metadata \in MetaArgs :
         create_user(p, email, password, user_metadata)
    \/ \E email \in Emails, password \in Passwords : sign_in_user(p, email, password)

Spec == Init /\ [][Next]_vars

\* Two callers at once: get_contacts (first page, valid page sizes) running
\* while contacts are inserted and deleted, and while the other caller runs
\* get_contacts too.
NextConc ==
  \E p \in Procs :
    \/ insert_contact(p, [name |-> "ann"])
    \/ \E contact_id \in Ids : delete_contact(p, contact_id)
    \/ \E page_size \in 1..MaxPageSize : get_contacts_slice(p, 1, page_size)
    \/ get_contacts_count(p)

SpecConc == Init /\ [][NextConc]_vars

\* ================================================================== claims
\* s contains sub as a substring
Contains(s, sub) ==
  \E i \in 0..(Len(s) - Len(sub)) : SubSeq(s, i + 1, i + Len(sub)) = sub

\* the failure value the contract fixes for each operation
Sentinel(op) == IF op = "delete_contact" THEN Bool(FALSE) ELSE None

Warnings(log) == {k \in 1..Len(log) : log[k].level = "warning"}
Errors(log) == {k \in 1..Len(log) : log[k].level = "error"}

\* the latest step completed a call
Completed == last.op \in OpNames

\* ------------------------------------------------------------------- C1
\* C1: when the client handle is absent, every operation returns its fixed
\* sentinel (False for delete, None for the others), logs exactly one
\* warning and no error, issues no request, and the collection is unchanged.
C1_AbsentClient ==
  /\ [](~client /\ Completed =>
          /\ last.ret = Sentinel(last.op)
          /\ Cardinality(Warnings(last.log)) = 1
          /\ Errors(last.log) = {}
          /\ Len(last.log) = 1
          /\ last.log[1].msg = WarnText
          /\ last.reqs = <<>>
          /\ last.resp = <<>>)
  /\ [][~client => table' = table /\ clock' = clock]_vars

\* an absent client, a stored row, and delete_contact returning False
C1_Witness ==
  /\ ~client
  /\ table # {}
  /\ last.op = "delete_contact"
  /\ last.ret = Bool(FALSE)
  /\ last.reqs = <<>>

\* ------------------------------------------------------------------- C2
\* the operations' names in the contract and in the source, as text
SpecName(op) ==
  CASE op = "insert_contact" -> <<"i","n","s","e","r","t">>
    [] op = "get_contacts" -> <<"l","i","s","t","_","p","a","g","e">>
    [] op = "get_contact_by_id" -> <<"g","e","t","_","b","y","_","i","d">>
    [] op = "update_contact" -> <<"u","p","d","a","t","e">>
    [] op = "delete_contact" -> <<"d","e","l","e","t","e">>
    [] op = "create_user" -> <<"c","r","e","a","t","e","_","a","c","c","o","u","n","t">>
    [] op = "sign_in_user" -> <<"s","i","g","n","_","i","n">>

CodeName(op) ==
  CASE op = "insert_contact" -> <<"i","n","s","e","r","t","_","c","o","n","t","a","c","t">>
    [] op = "get_contacts" -> <<"g","e","t","_","c","o","n","t","a","c","t","s">>
    [] op = "get_contact_by_id" -> <<"g","e","t","_","c","o","n","t","a","c","t","_","b","y","_","i","d">>
    [] op = "update_contact" -> <<"u","p","d","a","t","e","_","c","o","n","t","a","c","t">>
    [] op = "delete_contact" -> <<"d","e","l","e","t","e","_","c","o","n","t","a","c","t">>
    [] op = "create_user" -> <<"c","r","e","a","t","e","_","u","s","e","r">>
    [] op = "sign_in_user" -> <<"s","i","g","n","_","i","n","_","u","s","e","r">>

NamesOperation(msg, op) == Contains(msg, SpecName(op)) \/ Contains(msg, CodeName(op))

\* what C2 and its amended form share: the exception is caught, the sentinel
\* returned, one error and no warning logged
FaultCaught ==
  /\ last.ret = Sentinel(last.op)
  /\ Len(last.log) = 1
  /\ Cardinality(Errors(last.log)) = 1
  /\ Warnings(last.log) = {}

\* C2 as stated: with the client present, a call that raises returns the
\* sentinel and logs exactly one error, which contains the operation name,
\* and no warning.
C2_ErrorNamesOperation ==
  client /\ Completed /\ last.exc # "none" =>
    /\ FaultCaught
    /\ NamesOperation(last.log[1].msg, last.op)

\* C2 amended: with the client present, a call that raises returns the sentinel
\* and logs exactly one error and no warning; the error's text is the
\* operation's own fixed phrase followed by the exception's text, and no two
\* operations share a phrase.
C2_FaultContract ==
  /\ client /\ Completed /\ last.exc # "none" =>
       /\ FaultCaught
       /\ last.log[1].msg = ErrContext(last.op) \o StrOf(last.exc)
       /\ \A other \in OpNames \ {last.op} :
            SubSeq(last.log[1].msg, 1, Len(ErrContext(other))) # ErrContext(other)
  /\ client /\ Completed /\ last.exc = "none" => last.log = <<>>

\* get_contacts whose count request raised
C2_Witness ==
  /\ client
  /\ last.op = "get_contacts"
  /\ Len(last.reqs) = 2
  /\ last.exc = "APIError"
  /\ last.ret = None

\* ------------------------------------------------------------------- C3
\* C3: delete returns True iff the client is present, the request does not
\* raise and the service echoes at least one deleted row; otherwise it
\* returns False; it never returns anything but True or False.
C3_DeleteResult ==
  last.op = "delete_contact" =>
    /\ last.ret.kind = "bool"
    /\ last.ret.val \in BOOLEAN
    /\ last.ret.val <=>
         /\ client
         /\ last.exc = "none"
         /\ Len(last.resp) = 1
         /\ last.resp[1].kind = "data"
         /\ Len(last.resp[1].data) >= 1

\* delete_contact returned True and the row is gone
C3_Witness ==
  /\ last.op = "delete_contact"
  /\ last.ret = Bool(TRUE)
  /\ RowsWithId(table, last.args.contact_id) = {}

\* ------------------------------------------------------------------- C4
\* C4: end to end, once insert_contact has returned a row with id i,
\* get_contact_by_id(i) returns a record with the input's fields; once
\* delete_contact(i) has then returned True, get_contact_by_id(i) returns None
\* until a row with id i is inserted again.  (track follows the sequence; any
\* other request that changes row i ends it.)
C4_EndToEnd ==
  client /\ last.op = "get_contact_by_id" /\ last.exc = "none" =>
    LET i == last.args.contact_id
    IN  /\ track[i].st = "inserted" =>
             /\ last.ret.kind = "record"
             /\ last.ret.val.id = i
             /\ last.ret.val.name = track[i].name
        /\ track[i].st = "deleted" => last.ret = None

\* the end of the sequence: inserted, deleted with True, then looked up
C4_Witness ==
  /\ client
  /\ last.op = "get_contact_by_id"
  /\ last.exc = "none"
  /\ track[last.args.contact_id].st = "deleted"
  /\ last.ret = None

\* ------------------------------------------------------------------- C5
\* C5: every Page returned for page_size > 0 has pages = ceil(total/page_size)
\* (0 for total 0, 3 for total 45 and page_size 20), at most page_size items,
\* page and page_size equal to the arguments, and total equal to the count the
\* service reported, or 0 when it reported none.
C5_PageInvariant ==
  /\ last.op = "get_contacts" /\ last.ret.kind = "page" /\ last.args.page_size > 0 =>
       LET pg == last.ret
           ps == last.args.page_size
           cnt == last.resp[2].count
       IN  /\ (pg.pages - 1) * ps < pg.total
           /\ pg.total <= pg.pages * ps
           /\ pg.total = 0 => pg.pages = 0
           /\ Len(pg.items) <= ps
           /\ pg.page = last.args.page
           /\ pg.page_size = ps
           /\ pg.total = IF cnt.has THEN cnt.n ELSE 0
  /\ PagesOf(45, 20) = 3
  /\ \A ps \in 1..MaxPageSize : PagesOf(0, ps) = 0

\* a Page whose page count is rounded up: one row, page_size 2
C5_Witness ==
  /\ last.op = "get_contacts"
  /\ last.ret.kind = "page"
  /\ last.args.page_size = 2
  /\ last.ret.total = 1
  /\ last.ret.pages = 1
  /\ Len(last.ret.items) = 1

\* ------------------------------------------------------------------- C6
\* C6 as stated: get_contacts with page_size <= 0 never returns a Page; it
\* returns None.
C6_NonPositiveIsFault ==
  last.op = "get_contacts" /\ last.args.page_size <= 0 => last.ret = None

\* C6 amended: with page_size = 0 get_contacts always returns None (when both
\* requests succeed the page count divides by zero, which is caught and
\* logged); with page_size < 0 it returns None exactly when the client is
\* absent or a request raises, and a Page otherwise: the code does not check
\* page_size.
C6_ZeroIsFault ==
  /\ last.op = "get_contacts" /\ last.args.page_size = 0 => last.ret = None
  /\ last.op = "get_contacts" /\ last.args.page_size = 0 /\ client /\ Len(last.reqs) = 2
       /\ last.resp[2].kind = "count" =>
         /\ last.exc = "ZeroDivisionError"
         /\ Cardinality(Errors(last.log)) = 1
  /\ last.op = "get_contacts" /\ last.args.page_size < 0 =>
       /\ last.ret = None <=> (~client \/ last.exc # "none")
       /\ last.ret # None => last.ret.kind = "page"

\* page_size = 0, both requests answered, ZeroDivisionError caught
C6_Witness ==
  /\ client
  /\ last.op = "get_contacts"
  /\ last.args.page_size = 0
  /\ Len(last.reqs) = 2
  /\ last.exc = "ZeroDivisionError"
  /\ last.ret = None

\* ------------------------------------------------------------------- C7
\* C7: get_contact_by_id and update_contact return the first row the service
\* echoes when it echoes at least one, and None (never an empty list) when it
\* echoes none; update_contact on an id that does not exist returns what it
\* returns on a fault, and leaves the collection unchanged.
C7_FirstRowOrNone ==
  /\ [](client /\ last.op \in {"get_contact_by_id", "update_contact"}
          /\ last.exc = "none" =>
            LET d == last.resp[1].data
            IN  /\ Len(d) >= 1 => last.ret = Rec(d[1])
                /\ Len(d) = 0 => last.ret = None
                /\ Len(d) = 0 <=> RowsWithId(table, last.args.contact_id) = {})
  /\ [](last.op \in {"get_contact_by_id", "update_contact"} =>
          last.ret.kind \in {"record", "none"})
  /\ [](client /\ last.op = "update_contact" /\ last.exc # "none" => last.ret = None)
  /\ [][last'.op = "update_contact" /\ table' # table =>
          RowsWithId(table, last'.args.contact_id) # {}]_vars

\* update_contact on an id that is not stored, other rows being stored
C7_Witness ==
  /\ client
  /\ last.op = "update_contact"
  /\ last.exc = "none"
  /\ last.resp[1].data = <<>>
  /\ last.ret = None
  /\ table # {}

\* ------------------------------------------------------------------- C8
\* the positions a page asks for
RangeSet(page, page_size) == RangeStart(page, page_size)..RangeEnd(page, page_size)

\* req asks for the rows of this page, newest first
AsksForPage(req, page, page_size) ==
  /\ req.kind = "range"
  /\ req.order = "created_at"
  /\ req.desc
  /\ req.start = (page - 1) * page_size
  /\ req.end = (page - 1) * page_size + page_size - 1

\* items are the rows of tbl from position start on, newest first: the k-th
\* item has exactly start + k - 1 newer rows, and the page is as full as the
\* collection allows
IsPageOf(items, tbl, start, page_size) ==
  /\ \A k \in 1..Len(items) :
       /\ items[k] \in tbl
       /\ Cardinality({r \in tbl : r.created_at > items[k].created_at}) = start + k - 1
  /\ LET rest == IF Cardinality(tbl) > start THEN Cardinality(tbl) - start ELSE 0
     IN  Len(items) = IF rest < page_size THEN rest ELSE page_size

\* C8: get_contacts requests exactly the zero-indexed inclusive range
\* [(page-1)*page_size, (page-1)*page_size + page_size - 1] of the collection
\* ordered by created_at descending ([20, 39] for page 2 of size 20); for
\* page >= 1 and page_size >= 1 the ranges of distinct pages are disjoint and
\* those of pages 1..n cover exactly the positions 0..n*page_size-1.
C8_Range ==
  /\ client /\ last.op = "get_contacts" =>
       /\ AsksForPage(last.reqs[1], last.args.page, last.args.page_size)
       /\ last.resp[1].kind = "data" /\ last.args.page >= 1 /\ last.args.page_size >= 1 =>
            IsPageOf(last.resp[1].data, table,
                     (last.args.page - 1) * last.args.page_size, last.args.page_size)
  /\ \A p \in Procs : pc[p] = "count" =>
       /\ AsksForPage(frame[p].reqs[1], frame[p].page, frame[p].page_size)
       /\ frame[p].items = frame[p].resp[1].data
       /\ frame[p].page >= 1 /\ frame[p].page_size >= 1 =>
            IsPageOf(frame[p].items, table,
                     (frame[p].page - 1) * frame[p].page_size, frame[p].page_size)
  /\ RangeStart(2, 20) = 20 /\ RangeEnd(2, 20) = 39
  /\ \A page_size \in 1..MaxPageSize :
       /\ \A a, b \in 1..MaxPage :
            a # b => RangeSet(a, page_size) \cap RangeSet(b, page_size) = {}
       /\ \A n \in 1..MaxPage :
            UNION {RangeSet(k, page_size) : k \in 1..n} = 0..(n * page_size - 1)

\* the second page of size 1 of two rows: the older row
C8_Witness ==
  /\ last.op = "get_contacts"
  /\ last.args.page = 2
  /\ last.args.page_size = 1
  /\ last.ret.kind = "page"
  /\ Len(last.ret.items) = 1
  /\ \E r \in table : r.created_at > last.ret.items[1].created_at

\* ------------------------------------------------------------------- C9
\* the request each single-request method issues
KindOf(op) ==
  CASE op = "insert_contact" -> "insert"
    [] op = "get_contact_by_id" -> "select"
    [] op = "update_contact" -> "update"
    [] op = "delete_contact" -> "delete"
    [] op = "create_user" -> "sign_up"
    [] op = "sign_in_user" -> "sign_in_with_password"

\* C9: with the client present every call of insert, get_by_id, update,
\* delete, create_account and sign_in issues exactly one request; list_page
\* issues at most two, the range request first and the count request only
\* after the range request returned without raising; no request follows a
\* request that raised.
C9_Requests ==
  /\ Len(last.resp) = Len(last.reqs)
  /\ client /\ Completed =>
       /\ last.op # "get_contacts" =>
            /\ Len(last.reqs) = 1
            /\ last.reqs[1].kind = KindOf(last.op)
       /\ last.op = "get_contacts" =>
            /\ Len(last.reqs) \in {1, 2}
            /\ last.reqs[1].kind = "range"
            /\ Len(last.reqs) = 2 =>
                 last.reqs[2].kind = "count" /\ last.resp[1].kind = "data"
            /\ Len(last.reqs) = 1 => last.resp[1].kind = "raised"
       /\ \A k \in 1..Len(last.resp) :
            last.resp[k].kind = "raised" => k = Len(last.reqs)
  /\ \A p \in Procs :
       /\ pc[p] = "count" =>
            /\ client
            /\ Len(frame[p].reqs) = 1
            /\ frame[p].reqs[1].kind = "range"
            /\ Len(frame[p].resp) = 1
            /\ frame[p].resp[1].kind = "data"
       /\ pc[p] = "idle" => frame[p] = IdleFrame

\* get_contacts whose second request raised: two requests, none after it
C9_Witness ==
  /\ client
  /\ last.op = "get_contacts"
  /\ Len(last.reqs) = 2
  /\ last.resp[2].kind = "raised"

\* ------------------------------------------------------------------ C10
\* C10: the range request and the count request of get_contacts are separate
\* round trips: the Page's items are the rows at the time of the range
\* request, its total and pages the count at the time of the count request,
\* whatever was inserted or deleted in between; and a call issues its own two
\* requests also while another get_contacts call is running.
C10_Staleness ==
  /\ last.op = "get_contacts" /\ last.ret.kind = "page" =>
       LET slice == last.resp[1]
           cnt == last.resp[2]
           ps == last.args.page_size
       IN  /\ last.ret.items = slice.data
           /\ last.args.page = 1 /\ ps >= 1 =>
                Len(last.ret.items) = IF slice.size < ps THEN slice.size ELSE ps
           /\ cnt.count.has =>
                /\ last.ret.total = cnt.size
                /\ ps >= 1 => /\ (last.ret.pages - 1) * ps < cnt.size
                              /\ cnt.size <= last.ret.pages * ps
           /\ Len(last.reqs) = 2
           /\ last.reqs[1].kind = "range"
           /\ last.reqs[2].kind = "count"
  /\ \A p \in Procs : pc[p] = "count" =>
       /\ Len(frame[p].reqs) = 1
       /\ AsksForPage(frame[p].reqs[1], frame[p].page, frame[p].page_size)

\* a row deleted between the two requests of a call that ran while another
\* get_contacts call was running: items non-empty, total = 0, pages = 0
C10_Witness ==
  /\ last.op = "get_contacts"
  /\ last.ret.kind = "page"
  /\ last.ret.items # <<>>
  /\ last.resp[2].count.has
  /\ last.ret.total = 0
  /\ last.ret.pages = 0
  /\ last.resp[1].size # last.resp[2].size
  /\ \E q \in last.resp[2].peers :
       /\ pc[q] = "count"
       /\ frame[q].page = last.args.page
       /\ frame[q].page_size = last.args.page_size

====
